---- MODULE Spec2Model ----
(***************************************************************************)
(* Model of the report core of the product-transparency backend:          *)
(*   routes/reports.ts  (src/unnamed/part_004, lines 1-349)               *)
(*   models/Report.ts   (src/unnamed/part_002)                            *)
(*   routes/products.ts (src/unnamed/part_003)                            *)
(*   middleware/auth.ts (src/src/models/Product.ts, lines 159-239)        *)
(*                                                                         *)
(* Numbers.  JavaScript numbers are IEEE doubles.  The scorer only needs  *)
(* a score with one decimal digit, so a number x is kept as the integer   *)
(* 10*x ("tenths").  A completeness ratio is kept as a fraction num/den.  *)
(* Math.round(x) is floor(x + 1/2) and \div is floor division, so         *)
(*   Math.round(t/10)              = (t + 5) \div 10                      *)
(*   Math.round(100 * n/d)         = (200*n + d) \div (2*d)               *)
(*   Math.round(b*0.6 + c*0.4)     = (6*b + 4*c + 5) \div 10              *)
(*   Math.floor((1 - n/d) * 5)     = (5*(d - n)) \div d    (for n/d < 1/2) *)
(* The double results agree with these exact ones for every question and  *)
(* answer count up to 12 and every base 0..100.                           *)
(***************************************************************************)
EXTENDS Integers, Sequences, FiniteSets, TLC

VARIABLES products, nextProductId, reports, nextId, last, authorization, inflight,
          scIn, scOut

vars == <<products, nextProductId, reports, nextId, last, authorization, inflight,
          scIn, scOut>>

-----------------------------------------------------------------------------
(* Bounds of the model *)

MaxQuestions == 5
MaxAnswers == 4
MaxReports == 2
MaxProducts == 1

-----------------------------------------------------------------------------
(* JavaScript values and helpers *)

Max2(a, b) == IF a >= b THEN a ELSE b

Min2(a, b) == IF a <= b THEN a ELSE b

\* Math.round on a number kept in tenths: rounds half towards +infinity
JSRound(tenths) == (tenths + 5) \div 10

\* a JavaScript value found in a score field of the AI result
JSVal(kind, tenths) == [kind |-> kind, tenths |-> tenths]

Undefined == JSVal("undefined", 0)

\* the ?? operator: the right operand only when the left is null or undefined
Coalesce(a, b) == IF a.kind \in {"undefined", "null"} THEN b ELSE a

\* Number(v): [finite, tenths]; NaN and the infinities are not finite
ToNumber(v) ==
  CASE v.kind = "num"        -> [finite |-> TRUE, tenths |-> v.tenths]
    [] v.kind = "null"       -> [finite |-> TRUE, tenths |-> 0]
    [] v.kind = "emptystr"   -> [finite |-> TRUE, tenths |-> 0]
    [] v.kind = "undefined"  -> [finite |-> FALSE, tenths |-> 0]
    [] v.kind = "nonnumeric" -> [finite |-> FALSE, tenths |-> 0]
    [] v.kind = "nan"        -> [finite |-> FALSE, tenths |-> 0]
    [] v.kind = "posinf"     -> [finite |-> FALSE, tenths |-> 0]
    [] v.kind = "neginf"     -> [finite |-> FALSE, tenths |-> 0]

\* a field that may hold a list: -1 when it is not an array, else its length
NotArray == -1

-----------------------------------------------------------------------------
(* Strings: a category is a sequence of characters *)

UpperChars ==
  <<"A","B","C","D","E","F","G","H","I","J","K","L","M",
    "N","O","P","Q","R","S","T","U","V","W","X","Y","Z">>

LowerChars ==
  <<"a","b","c","d","e","f","g","h","i","j","k","l","m",
    "n","o","p","q","r","s","t","u","v","w","x","y","z">>

toLowerCase(s) ==
  [i \in 1..Len(s) |->
     IF \E k \in 1..26 : UpperChars[k] = s[i]
     THEN LowerChars[CHOOSE k \in 1..26 : UpperChars[k] = s[i]]
     ELSE s[i]]

\* String.prototype.includes
includes(s, sub) ==
  \E i \in 0..(Len(s) - Len(sub)) :
     \A j \in 1..Len(sub) : s[i + j] = sub[j]

\* the enum of ProductSchema.category
ProductCategories ==
  {"Skincare", "Food & Beverage", "Personal Care", "Cleaning Products",
   "Clothing", "Electronics", "Other"}

\* category strings the scorer may be handed: the enum, a missing category
\* ("") and strings outside the enum
CategoryNames == ProductCategories \cup {"", "APPAREL", "Healthcare"}

CategoryChars(c) ==
  CASE c = "Skincare"          -> <<"S","k","i","n","c","a","r","e">>
    [] c = "Food & Beverage"   -> <<"F","o","o","d"," ","&"," ","B","e","v","e","r","a","g","e">>
    [] c = "Personal Care"     -> <<"P","e","r","s","o","n","a","l"," ","C","a","r","e">>
    [] c = "Cleaning Products" -> <<"C","l","e","a","n","i","n","g"," ","P","r","o","d","u","c","t","s">>
    [] c = "Clothing"          -> <<"C","l","o","t","h","i","n","g">>
    [] c = "Electronics"       -> <<"E","l","e","c","t","r","o","n","i","c","s">>
    [] c = "Other"             -> <<"O","t","h","e","r">>
    [] c = "APPAREL"           -> <<"A","P","P","A","R","E","L">>
    [] c = "Healthcare"        -> <<"H","e","a","l","t","h","c","a","r","e">>
    [] c = ""                  -> <<>>

-----------------------------------------------------------------------------
(* Transparency scorer: deriveTransparencyScore *)

\* base score: the AI score when finite, else the random baseline 40..79
\* (rnd is Math.floor(Math.random() * 40), drawn only when it is needed)
ScorerBase(aiResult, rnd) ==
  LET baseFromAI == ToNumber(Coalesce(aiResult.transparencyScore, aiResult.score))
  IN IF baseFromAI.finite
     THEN Max2(0, Min2(100, JSRound(baseFromAI.tenths)))
     ELSE rnd + 40

\* number of questions the AI declared; NotArray stands for null
aiQuestionsCount(aiResult) ==
  IF aiResult.questions # NotArray THEN aiResult.questions
  ELSE IF aiResult.expectedQuestions # NotArray THEN aiResult.expectedQuestions
  ELSE NotArray

\* mutant: only the keys with a non-empty value are counted
providedAnswersCountFilled(answersObj) ==
  IF answersObj.isObject
  THEN Cardinality({i \in 1..Len(answersObj.vals) : answersObj.vals[i] \notin {"", "null"}})
  ELSE 0

providedAnswersCount(answersObj) ==
  IF answersObj.isObject THEN Len(answersObj.vals) ELSE 0

questionCount(aiResult, answersObj) ==
  IF aiQuestionsCount(aiResult) # NotArray
  THEN aiQuestionsCount(aiResult)
  ELSE Max2(1, providedAnswersCount(answersObj))

\* mutant: the ratio of the questions left unanswered
completenessRatioMissing(aiResult, answersObj) ==
  LET q == questionCount(aiResult, answersObj)
      a == providedAnswersCount(answersObj)
  IN IF q > 0
     THEN IF a >= q THEN [num |-> 0, den |-> 1] ELSE [num |-> q - a, den |-> q]
     ELSE [num |-> 0, den |-> 1]

\* mutant: the ratio is not capped at 1
completenessRatioNoCap(aiResult, answersObj) ==
  LET q == questionCount(aiResult, answersObj)
      a == providedAnswersCount(answersObj)
  IN IF q > 0 THEN [num |-> a, den |-> q] ELSE [num |-> 0, den |-> 1]

\* completeness ratio as a fraction num/den in [0,1]
completenessRatio(aiResult, answersObj) ==
  LET q == questionCount(aiResult, answersObj)
      a == providedAnswersCount(answersObj)
  IN IF q > 0
     THEN IF a >= q THEN [num |-> 1, den |-> 1] ELSE [num |-> a, den |-> q]
     ELSE [num |-> 0, den |-> 1]

\* mutant: the test for care comes first
categoryBoostCareFirst(categoryName) ==
  LET category == toLowerCase(CategoryChars(categoryName))
  IN IF includes(category, <<"p","e","r","s","o","n","a","l">>)
        \/ includes(category, <<"c","a","r","e">>) THEN 3
     ELSE IF includes(category, <<"s","k","i","n","c","a","r","e">>) THEN 5
     ELSE IF includes(category, <<"f","o","o","d">>) THEN 4
     ELSE IF includes(category, <<"c","l","e","a","n","i","n","g">>) THEN 3
     ELSE IF includes(category, <<"c","l","o","t","h","i","n","g">>)
             \/ includes(category, <<"a","p","p","a","r","e","l">>) THEN 2
     ELSE IF includes(category, <<"e","l","e","c","t","r","o","n","i","c","s">>) THEN 1
     ELSE 0

categoryBoost(categoryName) ==
  LET category == toLowerCase(CategoryChars(categoryName))
  IN IF includes(category, <<"s","k","i","n","c","a","r","e">>) THEN 5
     ELSE IF includes(category, <<"f","o","o","d">>) THEN 4
     ELSE IF includes(category, <<"p","e","r","s","o","n","a","l">>)
             \/ includes(category, <<"c","a","r","e">>) THEN 3
     ELSE IF includes(category, <<"c","l","e","a","n","i","n","g">>) THEN 3
     ELSE IF includes(category, <<"c","l","o","t","h","i","n","g">>)
             \/ includes(category, <<"a","p","p","a","r","e","l">>) THEN 2
     ELSE IF includes(category, <<"e","l","e","c","t","r","o","n","i","c","s">>) THEN 1
     ELSE 0

\* the boost of every category string, computed once
BoostTable == [c \in CategoryNames |-> categoryBoost(c)]

\* mutant: the weights of the base and of the completeness are swapped
ScorerComputedSwapped(aiResult, categoryName, answersObj, rnd) ==
  LET base == ScorerBase(aiResult, rnd)
      ratio == completenessRatio(aiResult, answersObj)
      completenessPercent == (200 * ratio.num + ratio.den) \div (2 * ratio.den)
      computed == (4 * base + 6 * completenessPercent + 5) \div 10
  IN IF 2 * ratio.num >= ratio.den
     THEN computed + BoostTable[categoryName]
     ELSE computed - Max2(0, (5 * (ratio.den - ratio.num)) \div ratio.den)

\* mutant: the category boost is added whatever the completeness
ScorerComputedAlwaysBoost(aiResult, categoryName, answersObj, rnd) ==
  LET base == ScorerBase(aiResult, rnd)
      ratio == completenessRatio(aiResult, answersObj)
      completenessPercent == (200 * ratio.num + ratio.den) \div (2 * ratio.den)
      computed == (6 * base + 4 * completenessPercent + 5) \div 10
  IN IF 2 * ratio.num >= ratio.den
     THEN computed + BoostTable[categoryName]
     ELSE computed + BoostTable[categoryName]
            - Max2(0, (5 * (ratio.den - ratio.num)) \div ratio.den)

\* mutant: the boost needs a ratio above 0.5
ScorerComputedStrict(aiResult, categoryName, answersObj, rnd) ==
  LET base == ScorerBase(aiResult, rnd)
      ratio == completenessRatio(aiResult, answersObj)
      completenessPercent == (200 * ratio.num + ratio.den) \div (2 * ratio.den)
      computed == (6 * base + 4 * completenessPercent + 5) \div 10
  IN IF 2 * ratio.num > ratio.den
     THEN computed + BoostTable[categoryName]
     ELSE computed - Max2(0, (5 * (ratio.den - ratio.num)) \div ratio.den)

\* the score before the final clamp
ScorerComputed(aiResult, categoryName, answersObj, rnd) ==
  LET base == ScorerBase(aiResult, rnd)
      ratio == completenessRatio(aiResult, answersObj)
      completenessPercent == (200 * ratio.num + ratio.den) \div (2 * ratio.den)
      computed == (6 * base + 4 * completenessPercent + 5) \div 10
  IN IF 2 * ratio.num >= ratio.den
     THEN computed + BoostTable[categoryName]
     ELSE computed - Max2(0, (5 * (ratio.den - ratio.num)) \div ratio.den)

\* mutant: the final clamp to 0..100 is forgotten
deriveTransparencyScoreNoClamp(aiResult, categoryName, answersObj, rnd) ==
  ScorerComputed(aiResult, categoryName, answersObj, rnd)

deriveTransparencyScore(aiResult, categoryName, answersObj, rnd) ==
  Max2(0, Min2(100, ScorerComputed(aiResult, categoryName, answersObj, rnd)))

-----------------------------------------------------------------------------
(* Identities: what protect puts in req.user *)

Users == {"u1", "u2", "adm"}

\* IUser.role
Role(u) == IF u = "adm" THEN "admin" ELSE "user"

\* the user collection: the accounts above and one deactivated account
Accounts == Users \cup {"off"}

\* IUser.isActive
isActive(u) == u \in Users

\* a JSON web token: verifies is what jwt.verify makes of it (signed with
\* the secret and not expired), id is the id it carries
Token(verifies, id) == [verifies |-> verifies, id |-> id]

\* the Authorization header of a request; token is what follows the scheme
\* and a blank, <<>> when nothing does
NoHeader == [scheme |-> "none", token |-> <<>>]

Header(scheme, token) == [scheme |-> scheme, token |-> token]

BearerOf(u) == Header("Bearer", <<Token(TRUE, u)>>)

\* what protect makes of a request it turns away
Denied == [ok |-> FALSE, user |-> "none"]

\* mutant: protect without the isActive check
protectSkipActive(header) ==
  LET token == IF header.scheme = "Bearer" THEN header.token ELSE <<>>
  IN IF token = <<>> THEN Denied
     ELSE IF ~token[1].verifies THEN Denied
     ELSE IF token[1].id \notin Accounts THEN Denied
     ELSE [ok |-> TRUE, user |-> token[1].id]

\* protect: ok when it calls next(), with req.user; every other way out
\* answers 401
protect(header) ==
  LET token == IF header.scheme = "Bearer" THEN header.token ELSE <<>>
  IN IF token = <<>> THEN Denied
     ELSE IF ~token[1].verifies THEN Denied
     ELSE IF token[1].id \notin Accounts THEN Denied
     ELSE IF ~isActive(token[1].id) THEN Denied
     ELSE [ok |-> TRUE, user |-> token[1].id]

\* the answer of protect to a request it turns away
Unauthorized(op) == [op |-> op, status |-> 401]

-----------------------------------------------------------------------------
(* Report schema and store *)

StatusEnum == {"draft", "pending", "completed"}

\* a field of a request body or query: <<>> when it was not sent, else <<v>>
Sent(field) == field # <<>>

\* a userId value that is not null and casts to an ObjectId
CastableUserIds == Accounts

\* ReportSchema validation on save: required fields, casts, min/max, enum
SchemaValid(doc) ==
  /\ doc.userId \in CastableUserIds
  /\ doc.summaryOk
  /\ doc.transparencyScore >= 0
  /\ doc.transparencyScore <= 100
  /\ doc.status \in StatusEnum

\* ReportSchema.pre('save'): TRUE when the hook lets the save go on
PreSaveOk(doc) ==
  ~(doc.status = "completed" /\ doc.transparencyScore < 0)

\* what is kept of a saved document (summaryOk is a property of the write).
\* creator is a history field, not a schema path: the user whose POST
\* created the document
Stored(doc) ==
  [productId |-> doc.productId, userId |-> doc.userId, creator |-> doc.creator,
   transparencyScore |-> doc.transparencyScore, status |-> doc.status,
   answers |-> doc.answers]

\* a stored document as the handlers see it
Loaded(r) ==
  [productId |-> r.productId, userId |-> r.userId, creator |-> r.creator,
   transparencyScore |-> r.transparencyScore, status |-> r.status,
   answers |-> r.answers, summaryOk |-> TRUE]

\* store with one document written / removed
StorePut(store, id, r) ==
  [i \in DOMAIN store \cup {id} |-> IF i = id THEN r ELSE store[i]]

\* mutant: the delete empties the collection
StoreRemoveAll(store, id) == <<>>

StoreRemove(store, id) ==
  [i \in DOMAIN store \ {id} |-> store[i]]

\* mutant: the ownership check lets every caller through
ForbiddenNever(user, report) == FALSE

\* the ownership check of GET, PUT and DELETE /:id (req.user is always set
\* by protect, report.userId is always set in a stored report)
Forbidden(user, report) ==
  /\ report.userId # user
  /\ Role(user) # "admin"

-----------------------------------------------------------------------------
(* GET /api/reports/stats/overview *)

\* mutant: the match stage is empty, the aggregation is global
MatchStageGlobal(store, userId) == DOMAIN store

\* { $match: { userId } }
MatchStage(store, userId) == {id \in DOMAIN store : store[id].userId = userId}

RECURSIVE SumScores(_, _)
SumScores(store, ids) ==
  IF ids = {} THEN 0
  ELSE LET id == CHOOSE i \in ids : TRUE
       IN store[id].transparencyScore + SumScores(store, ids \ {id})

CountStatus(store, ids, st) == Cardinality({id \in ids : store[id].status = st})

\* the $group stage: no document when nothing matched, else one.
\* averageScore is the fraction num/den
GroupStage(store, ids) ==
  IF ids = {} THEN <<>>
  ELSE <<[totalReports |-> Cardinality(ids),
          averageScore |-> [num |-> SumScores(store, ids), den |-> Cardinality(ids)],
          maxScore |-> CHOOSE m \in {store[i].transparencyScore : i \in ids} :
                         \A i \in ids : store[i].transparencyScore <= m,
          minScore |-> CHOOSE m \in {store[i].transparencyScore : i \in ids} :
                         \A i \in ids : store[i].transparencyScore >= m,
          completedReports |-> CountStatus(store, ids, "completed"),
          pendingReports |-> CountStatus(store, ids, "pending"),
          draftReports |-> CountStatus(store, ids, "draft")]>>

ZeroOverview ==
  [totalReports |-> 0, averageScore |-> [num |-> 0, den |-> 1],
   maxScore |-> 0, minScore |-> 0,
   completedReports |-> 0, pendingReports |-> 0, draftReports |-> 0]

\* boundaries: [0, 20, 40, 60, 80, 100]
BucketBoundaries == <<0, 20, 40, 60, 80, 100>>

BucketName(lower) ==
  CASE lower = 0 -> "0" [] lower = 20 -> "20" [] lower = 40 -> "40"
    [] lower = 60 -> "60" [] lower = 80 -> "80"

\* $bucket: a value v goes to the bucket whose lower
\* boundary b[k] has b[k] <= v < b[k+1]; any other value goes to the default
\* bucket 'Other'.  The bucket _id is written as a string.
BucketOf(score) ==
  IF \E k \in 1..(Len(BucketBoundaries) - 1) :
       BucketBoundaries[k] <= score /\ score < BucketBoundaries[k + 1]
  THEN BucketName(BucketBoundaries[
         CHOOSE k \in 1..(Len(BucketBoundaries) - 1) :
           BucketBoundaries[k] <= score /\ score < BucketBoundaries[k + 1]])
  ELSE "Other"

\* the $bucket stage: one entry per non-empty bucket, with its count
BucketStage(store, ids) ==
  [b \in {BucketOf(store[i].transparencyScore) : i \in ids} |->
     Cardinality({i \in ids : BucketOf(store[i].transparencyScore) = b})]

\* mutant: no zeroed default, the average of no document is 0/0
OverviewNoDefault(stats) ==
  IF stats # <<>> THEN stats[1]
  ELSE [ZeroOverview EXCEPT !.averageScore = [num |-> 0, den |-> 0]]

\* stats[0] || { totalReports: 0, ... }
OverviewOf(stats) ==
  IF stats # <<>> THEN stats[1] ELSE ZeroOverview

StatsResponse(store, user) ==
  LET ids == MatchStage(store, user)
  IN [op |-> "stats", caller |-> user, status |-> 200,
      overview |-> OverviewOf(GroupStage(store, ids)),
      scoreDistribution |-> BucketStage(store, ids)]

-----------------------------------------------------------------------------
(* GET /api/reports *)

DefaultLimit == 10

\* query validators: page >= 1, 1 <= limit <= 100, status in the enum,
\* 0 <= minScore, maxScore <= 100
ValidListQuery(q) ==
  /\ Sent(q.page) => q.page[1] >= 1
  /\ Sent(q.limit) => (q.limit[1] >= 1 /\ q.limit[1] <= 100)
  /\ Sent(q.status) => q.status[1] \in StatusEnum
  /\ Sent(q.minScore) => (q.minScore[1] >= 0 /\ q.minScore[1] <= 100)
  /\ Sent(q.maxScore) => (q.maxScore[1] >= 0 /\ q.maxScore[1] <= 100)

\* mutant: the filter is not scoped to the requesting user
ListFilterUnscoped(store, user, q) ==
  {id \in DOMAIN store :
     /\ Sent(q.status) => store[id].status = q.status[1]
     /\ Sent(q.minScore) => store[id].transparencyScore >= q.minScore[1]
     /\ Sent(q.maxScore) => store[id].transparencyScore <= q.maxScore[1]}

\* the documents selected by the filter object
ListFilter(store, user, q) ==
  {id \in DOMAIN store :
     /\ store[id].userId = user
     /\ Sent(q.status) => store[id].status = q.status[1]
     /\ Sent(q.minScore) => store[id].transparencyScore >= q.minScore[1]
     /\ Sent(q.maxScore) => store[id].transparencyScore <= q.maxScore[1]}

\* sort({ createdAt: -1 }): ids are handed out in creation order
RECURSIVE SortNewestFirst(_)
SortNewestFirst(ids) ==
  IF ids = {} THEN <<>>
  ELSE LET newest == CHOOSE i \in ids : \A j \in ids : j <= i
       IN <<newest>> \o SortNewestFirst(ids \ {newest})

\* skip(n).limit(m) on a sequence
SkipLimit(seq, skip, limit) ==
  SubSeq(seq, skip + 1, Min2(Len(seq), skip + limit))

CeilDiv(a, b) == (a + b - 1) \div b

ListResponse(store, user, q) ==
  IF ~ValidListQuery(q)
  THEN [op |-> "list", caller |-> user, query |-> q, status |-> 400]
  ELSE LET page == IF Sent(q.page) THEN q.page[1] ELSE 1
           limit == IF Sent(q.limit) THEN q.limit[1] ELSE DefaultLimit
           skip == (page - 1) * limit
           matched == ListFilter(store, user, q)
           ids == SkipLimit(SortNewestFirst(matched), skip, limit)
       IN [op |-> "list", caller |-> user, query |-> q, status |-> 200,
           count |-> Len(ids), total |-> Cardinality(matched), page |-> page,
           totalPages |-> CeilDiv(Cardinality(matched), limit),
           data |-> [k \in 1..Len(ids) |-> [id |-> ids[k], report |-> store[ids[k]]]]]

-----------------------------------------------------------------------------
(* GET /api/reports/:id *)

GetResponse(store, user, id) ==
  IF id \notin DOMAIN store
  THEN [op |-> "get", caller |-> user, id |-> id, status |-> 404]
  ELSE IF Forbidden(user, store[id])
  THEN [op |-> "get", caller |-> user, id |-> id, status |-> 403]
  ELSE [op |-> "get", caller |-> user, id |-> id, status |-> 200,
        data |-> store[id]]

-----------------------------------------------------------------------------
(* PUT /api/reports/:id *)

\* isInt({ min, max }) on a body value
IsIntBetween(v, lo, hi) ==
  /\ v.kind = "num"
  /\ v.tenths % 10 = 0
  /\ v.tenths \div 10 >= lo
  /\ v.tenths \div 10 <= hi

\* mutant: the score validator only asks for an integer
ValidPutBodyNoRange(body) ==
  /\ Sent(body.summary) => body.summary[1] # "toolong"
  /\ Sent(body.transparencyScore) =>
       (body.transparencyScore[1].kind = "num" /\ body.transparencyScore[1].tenths % 10 = 0)
  /\ Sent(body.status) => body.status[1] \in StatusEnum
  /\ Sent(body.answers) => body.answers[1].isObject

\* the validators of the PUT route
ValidPutBody(body) ==
  /\ Sent(body.summary) => body.summary[1] # "toolong"
  /\ Sent(body.transparencyScore) => IsIntBetween(body.transparencyScore[1], 0, 100)
  /\ Sent(body.status) => body.status[1] \in StatusEnum
  /\ Sent(body.answers) => body.answers[1].isObject

\* mutant: a completed report keeps its status
AssignBodyKeepCompleted(doc, body) ==
  [doc EXCEPT
     !.summaryOk = IF Sent(body.summary) THEN body.summary[1] = "ok" ELSE @,
     !.transparencyScore =
        IF Sent(body.transparencyScore) THEN body.transparencyScore[1].tenths \div 10 ELSE @,
     !.status = IF Sent(body.status) /\ @ # "completed" THEN body.status[1] ELSE @,
     !.answers = IF Sent(body.answers) THEN body.answers[1] ELSE @,
     !.userId = IF Sent(body.userId) THEN body.userId[1] ELSE @]

\* Object.assign(report, req.body): every field of the body is copied, the
\* validated ones and userId alike
AssignBody(doc, body) ==
  [doc EXCEPT
     !.summaryOk = IF Sent(body.summary) THEN body.summary[1] = "ok" ELSE @,
     !.transparencyScore =
        IF Sent(body.transparencyScore) THEN body.transparencyScore[1].tenths \div 10 ELSE @,
     !.status = IF Sent(body.status) THEN body.status[1] ELSE @,
     !.answers = IF Sent(body.answers) THEN body.answers[1] ELSE @,
     !.userId = IF Sent(body.userId) THEN body.userId[1] ELSE @]

\* mutant: the ownership check comes after the save
PutResultSaveFirst(store, user, id, body) ==
  LET resp(st) == [op |-> "put", caller |-> user, id |-> id, body |-> body, status |-> st]
  IN IF ~ValidPutBody(body) THEN [store |-> store, resp |-> resp(400)]
     ELSE IF id \notin DOMAIN store THEN [store |-> store, resp |-> resp(404)]
     ELSE LET doc == AssignBody(Loaded(store[id]), body)
          IN IF ~(SchemaValid(doc) /\ PreSaveOk(doc))
             THEN [store |-> store, resp |-> resp(500)]
             ELSE [store |-> StorePut(store, id, Stored(doc)),
                   resp |-> resp(IF Forbidden(user, store[id]) THEN 403 ELSE 200)]

\* the handler: the store after the request and the response
PutResult(store, user, id, body) ==
  LET resp(st) == [op |-> "put", caller |-> user, id |-> id, body |-> body, status |-> st]
  IN IF ~ValidPutBody(body) THEN [store |-> store, resp |-> resp(400)]
     ELSE IF id \notin DOMAIN store THEN [store |-> store, resp |-> resp(404)]
     ELSE IF Forbidden(user, store[id]) THEN [store |-> store, resp |-> resp(403)]
     ELSE LET doc == AssignBody(Loaded(store[id]), body)
          IN IF SchemaValid(doc) /\ PreSaveOk(doc)
             THEN [store |-> StorePut(store, id, Stored(doc)), resp |-> resp(200)]
             ELSE [store |-> store, resp |-> resp(500)]

-----------------------------------------------------------------------------
(* DELETE /api/reports/:id *)

DeleteResult(store, user, id) ==
  LET resp(st) == [op |-> "delete", caller |-> user, id |-> id, status |-> st]
  IN IF id \notin DOMAIN store THEN [store |-> store, resp |-> resp(404)]
     ELSE IF Forbidden(user, store[id]) THEN [store |-> store, resp |-> resp(403)]
     ELSE [store |-> StoreRemove(store, id), resp |-> resp(200)]

-----------------------------------------------------------------------------
(* AI results *)

AIResult(sp, qp, isNull, summaryOk) ==
  [isNull |-> isNull, summaryOk |-> summaryOk,
   transparencyScore |-> sp[1], score |-> sp[2],
   questions |-> qp[1], expectedQuestions |-> qp[2]]

\* aiResult is null or undefined: every optional-chained read gives undefined
AbsentAI == AIResult(<<Undefined, Undefined>>, <<NotArray, NotArray>>, TRUE, FALSE)

\* the analysis built in the catch block of the AI call; rnd is
\* Math.floor(Math.random() * 40)
FallbackAnalysis(rnd) ==
  AIResult(<<JSVal("num", 10 * (rnd + 40)), Undefined>>, <<NotArray, NotArray>>, FALSE, TRUE)

\* does the scorer call Math.random for this AI result?
NeedsRandom(aiResult) ==
  ~ToNumber(Coalesce(aiResult.transparencyScore, aiResult.score)).finite

\* an answers object: its values in key order; isObject is FALSE for a
\* value that is not an object
AnswersObj(vals) == [isObject |-> TRUE, vals |-> vals]

NotAnObject == [isObject |-> FALSE, vals |-> <<>>]

-----------------------------------------------------------------------------
(* POST /api/reports *)

\* a productId that is not a Mongo id
MalformedId == 0

\* body('productId').isMongoId(), body('answers').isObject()
ValidPostBody(productId, answers) ==
  /\ productId # MalformedId
  /\ answers.isObject

\* mutant: the product lookup result is not checked
ProductMissingNever(prods, productId) == FALSE

\* !product after Product.findById(productId)
ProductMissing(prods, productId) == productId \notin DOMAIN prods

\* (productObj?.category || '')
CategoryOf(prods, productId) ==
  IF productId \in DOMAIN prods THEN prods[productId].category ELSE ""

\* mutant: the catch block of the AI call leaves aiAnalysis unset
AnalysisUnsetOnFailure(ai, rnd1) ==
  IF ai.failed THEN AbsentAI ELSE ai.data

\* the try/catch around the AI call: the answer, or the fallback analysis
AnalysisOf(ai, rnd1) ==
  IF ai.failed THEN FallbackAnalysis(rnd1) ELSE ai.data

\* mutant: the document is created with the score of the AI analysis
NewReportRawScore(user, productId, answers, aiAnalysis, computedScore) ==
  LET raw == ToNumber(Coalesce(aiAnalysis.transparencyScore, aiAnalysis.score))
  IN [productId |-> productId, userId |-> user, creator |-> user,
      transparencyScore |-> IF raw.finite THEN JSRound(raw.tenths) ELSE 0,
      status |-> "completed", answers |-> answers, summaryOk |-> aiAnalysis.summaryOk]

\* the document handed to Report.create
NewReport(user, productId, answers, aiAnalysis, computedScore) ==
  [productId |-> productId, userId |-> user, creator |-> user,
   transparencyScore |-> computedScore, status |-> "completed",
   answers |-> answers, summaryOk |-> aiAnalysis.summaryOk]

\* the handler.  ai is the outcome of the AI call ([failed, data]); rnd1 is
\* the random draw of the fallback analysis, rnd2 the one of the scorer;
\* fault names the store operation that throws, if any.  The answer records
\* the analysis the handler went on with and the scorer's draw
PostResult(store, prods, nid, user, productId, answers, ai, rnd1, rnd2, fault) ==
  LET resp(st, called, analysis, draw) ==
        [op |-> "post", caller |-> user, productId |-> productId, answers |-> answers,
         fault |-> fault, aiDown |-> ai.failed, aiCalled |-> called,
         analysis |-> analysis, draw |-> draw, id |-> nid, status |-> st]
  IN IF ~ValidPostBody(productId, answers)
     THEN [store |-> store, resp |-> resp(400, FALSE, AbsentAI, 0)]
     ELSE IF fault = "findProduct"
     THEN [store |-> store, resp |-> resp(500, FALSE, AbsentAI, 0)]
     ELSE IF ProductMissing(prods, productId)
     THEN [store |-> store, resp |-> resp(404, FALSE, AbsentAI, 0)]
     ELSE
       LET aiAnalysis == AnalysisOf(ai, rnd1)
           computedScore ==
             deriveTransparencyScore(aiAnalysis, CategoryOf(prods, productId), answers, rnd2)
           doc == NewReport(user, productId, answers, aiAnalysis, computedScore)
       IN IF aiAnalysis.isNull \/ fault = "create"
             \/ ~(SchemaValid(doc) /\ PreSaveOk(doc))
          THEN [store |-> store, resp |-> resp(500, TRUE, aiAnalysis, rnd2)]
          ELSE IF fault = "populate"
          THEN [store |-> StorePut(store, nid, Stored(doc)),
                resp |-> resp(500, TRUE, aiAnalysis, rnd2)]
          ELSE [store |-> StorePut(store, nid, Stored(doc)),
                resp |-> resp(201, TRUE, aiAnalysis, rnd2)]

-----------------------------------------------------------------------------
(* POST /api/products and DELETE /api/products/:id *)

\* the validators of the product route: category in the enum, at least one
\* ingredient (name and brand are taken as well-formed)
ValidProductBody(body) ==
  /\ body.category \in ProductCategories
  /\ body.ingredients >= 1

\* ProductSchema.pre('save')
ProductPreSaveOk(doc) == ~(doc.ingredients = 0)

CreateProductResult(prods, pid, user, body) ==
  LET resp(st) == [op |-> "createProduct", caller |-> user, body |-> body,
                   id |-> pid, status |-> st]
  IN IF ~ValidProductBody(body) THEN [store |-> prods, resp |-> resp(400)]
     ELSE IF ~ProductPreSaveOk(body) THEN [store |-> prods, resp |-> resp(500)]
     ELSE [store |-> StorePut(prods, pid, body), resp |-> resp(201)]

DeleteProductResult(prods, user, pid) ==
  LET resp(st) == [op |-> "deleteProduct", caller |-> user, id |-> pid, status |-> st]
  IN IF pid \notin DOMAIN prods THEN [store |-> prods, resp |-> resp(404)]
     ELSE [store |-> StoreRemove(prods, pid), resp |-> resp(200)]

-----------------------------------------------------------------------------
(* The request handlers as actions.  inp holds the sets the inputs of the
   requests are drawn from. *)

NoRequest == [op |-> "none", status |-> 0]

\* the requests that are being handled: a request that awaits the AI service
\* or the store between two steps of its handler occupies a slot.  Two
\* requests at a time are enough for a pair of interleaved requests
Slots == {1, 2}

Idle == [phase |-> "idle"]

Init ==
  /\ products = <<>>
  /\ nextProductId = 1
  /\ reports = <<>>
  /\ nextId = 1
  /\ last = NoRequest
  /\ authorization = NoHeader
  /\ inflight = [s \in Slots |-> Idle]
  /\ scIn = [aiResult |-> AbsentAI, category |-> "", answers |-> NotAnObject]
  /\ scOut = <<>>

\* the Authorization headers the requests of the given users carry
Headers(inp, users) == {BearerOf(u) : u \in users} \cup inp.badHeaders

CreateProduct(inp) ==
  /\ nextProductId <= MaxProducts
  /\ \E header \in Headers(inp, inp.callers), body \in inp.productBodies :
       LET auth == protect(header)
           r == IF auth.ok
                THEN CreateProductResult(products, nextProductId, auth.user, body)
                ELSE [store |-> products, resp |-> Unauthorized("createProduct")]
       IN /\ products' = r.store
          /\ nextProductId' = IF r.resp.status = 201 THEN nextProductId + 1 ELSE nextProductId
          /\ last' = r.resp
          /\ authorization' = header
  /\ UNCHANGED <<reports, nextId, inflight, scIn, scOut>>

DeleteProduct(inp) ==
  /\ \E header \in Headers(inp, inp.callers), pid \in 1..MaxProducts :
       LET auth == protect(header)
           r == IF auth.ok
                THEN DeleteProductResult(products, auth.user, pid)
                ELSE [store |-> products, resp |-> Unauthorized("deleteProduct")]
       IN /\ products' = r.store
          /\ last' = r.resp
          /\ authorization' = header
  /\ UNCHANGED <<nextProductId, reports, nextId, inflight, scIn, scOut>>

PostReport(inp) ==
  /\ nextId <= MaxReports
  /\ \E header \in Headers(inp, inp.posters), productId \in inp.productIds,
        answers \in inp.postAnswers, ai \in inp.aiOutcomes, fault \in inp.faults :
       \E rnd1 \in (IF ai.failed THEN inp.draws ELSE {0}) :
         \E rnd2 \in (IF ~ai.failed /\ NeedsRandom(ai.data) THEN inp.draws ELSE {0}) :
           LET auth == protect(header)
               r == IF auth.ok
                    THEN PostResult(reports, products, nextId, auth.user, productId,
                                    answers, ai, rnd1, rnd2, fault)
                    ELSE [store |-> reports, resp |-> Unauthorized("post")]
           IN /\ reports' = r.store
              /\ nextId' = IF nextId \in DOMAIN r.store THEN nextId + 1 ELSE nextId
              /\ last' = r.resp
              /\ authorization' = header
  /\ UNCHANGED <<products, nextProductId, inflight, scIn, scOut>>

GetReport(inp) ==
  /\ \E header \in Headers(inp, inp.callers), id \in 1..MaxReports :
       LET auth == protect(header)
       IN /\ last' = IF auth.ok THEN GetResponse(reports, auth.user, id)
                     ELSE Unauthorized("get")
          /\ authorization' = header
  /\ UNCHANGED <<products, nextProductId, reports, nextId, inflight, scIn, scOut>>

PutReport(inp) ==
  /\ \E header \in Headers(inp, inp.callers), id \in 1..MaxReports,
        body \in inp.putBodies :
       LET auth == protect(header)
           r == IF auth.ok THEN PutResult(reports, auth.user, id, body)
                ELSE [store |-> reports, resp |-> Unauthorized("put")]
       IN /\ reports' = r.store
          /\ last' = r.resp
          /\ authorization' = header
  /\ UNCHANGED <<products, nextProductId, nextId, inflight, scIn, scOut>>

DeleteReport(inp) ==
  /\ \E header \in Headers(inp, inp.callers), id \in 1..MaxReports :
       LET auth == protect(header)
           r == IF auth.ok THEN DeleteResult(reports, auth.user, id)
                ELSE [store |-> reports, resp |-> Unauthorized("delete")]
       IN /\ reports' = r.store
          /\ last' = r.resp
          /\ authorization' = header
  /\ UNCHANGED <<products, nextProductId, nextId, inflight, scIn, scOut>>

ListReports(inp) ==
  /\ \E header \in Headers(inp, inp.callers), q \in inp.listQueries :
       LET auth == protect(header)
       IN /\ last' = IF auth.ok THEN ListResponse(reports, auth.user, q)
                     ELSE Unauthorized("list")
          /\ authorization' = header
  /\ UNCHANGED <<products, nextProductId, reports, nextId, inflight, scIn, scOut>>

StatsOverview(inp) ==
  /\ \E header \in Headers(inp, inp.callers) :
       LET auth == protect(header)
       IN /\ last' = IF auth.ok THEN StatsResponse(reports, auth.user)
                     ELSE Unauthorized("stats")
          /\ authorization' = header
  /\ UNCHANGED <<products, nextProductId, reports, nextId, inflight, scIn, scOut>>

\* the requests of /api/reports
ReportRequests(inp) ==
  \/ PostReport(inp)
  \/ GetReport(inp)
  \/ PutReport(inp)
  \/ DeleteReport(inp)
  \/ ListReports(inp)
  \/ StatsOverview(inp)

\* the requests of /api/products and /api/reports
NextWith(inp) ==
  \/ CreateProduct(inp)
  \/ DeleteProduct(inp)
  \/ ReportRequests(inp)

\* a catalogue that already holds one product
InitSeeded ==
  /\ products = <<[category |-> "Skincare", ingredients |-> 1]>>
  /\ nextProductId = 2
  /\ reports = <<>>
  /\ nextId = 1
  /\ last = NoRequest
  /\ authorization = NoHeader
  /\ inflight = [s \in Slots |-> Idle]
  /\ scIn = [aiResult |-> AbsentAI, category |-> "", answers |-> NotAnObject]
  /\ scOut = <<>>

-----------------------------------------------------------------------------
(* Input sets *)

\* a PUT body: the fields that were sent
PutBody(summary, score, status, answers, userId) ==
  [summary |-> summary, transparencyScore |-> score, status |-> status,
   answers |-> answers, userId |-> userId]

Query(page, limit, status, minScore, maxScore) ==
  [page |-> page, limit |-> limit, status |-> status,
   minScore |-> minScore, maxScore |-> maxScore]

AIOk(data) == [failed |-> FALSE, data |-> data]

\* transport error, timeout or non-2xx answer
AIFailed == [failed |-> TRUE, data |-> AbsentAI]

AIScore(tenths) ==
  AIResult(<<JSVal("num", tenths), Undefined>>, <<NotArray, NotArray>>, FALSE, TRUE)

ProductBody(category, ingredients) == [category |-> category, ingredients |-> ingredients]

NoBody == PutBody(<<>>, <<>>, <<>>, <<>>, <<>>)

NoQuery == Query(<<>>, <<>>, <<>>, <<>>, <<>>)

ScoreBody(v) == PutBody(<<>>, <<v>>, <<>>, <<>>, <<>>)

StatusBody(st) == PutBody(<<>>, <<>>, <<st>>, <<>>, <<>>)

UserIdBody(u) == PutBody(<<>>, <<>>, <<>>, <<>>, <<u>>)

\* report creation: products come and go, the AI answers, fails or returns
\* junk, the store may throw
CreateInputs ==
  [callers |-> {"u1"},
   posters |-> {"u1"},
   productBodies |-> {ProductBody("Skincare", 1), ProductBody("Other", 0),
                      ProductBody("Toys", 1)},
   productIds |-> {MalformedId} \cup 1..MaxProducts,
   postAnswers |-> {AnswersObj(<<"yes">>), NotAnObject},
   aiOutcomes |-> {AIFailed, AIOk(AIScore(700)), AIOk(AbsentAI),
                   AIOk(AIResult(<<Undefined, Undefined>>, <<0, NotArray>>, FALSE, FALSE))},
   draws |-> {0, 39},
   faults |-> {"none", "findProduct", "create", "populate"},
   putBodies |-> {NoBody},
   listQueries |-> {NoQuery},
   badHeaders |-> {}]

Next == NextWith(CreateInputs)

Spec == Init /\ [][Next]_vars

\* the one AI answer of the specifications about stored reports: score 100
GoodAI == AIOk(AIScore(1000))

\* updates of the score and the status by the owner
UpdateInputs ==
  [callers |-> {"u1"},
   posters |-> {"u1"},
   productIds |-> {1},
   postAnswers |-> {AnswersObj(<<>>)},
   aiOutcomes |-> {AIFailed, AIOk(AIScore(2500)), AIOk(AIScore(-15))},
   draws |-> {0},
   faults |-> {"none"},
   putBodies |-> {NoBody,
                  ScoreBody(JSVal("num", 0)), ScoreBody(JSVal("num", 1000)),
                  ScoreBody(JSVal("num", -10)), ScoreBody(JSVal("num", 1010)),
                  ScoreBody(JSVal("num", 505)), ScoreBody(JSVal("nonnumeric", 0)),
                  ScoreBody(JSVal("null", 0)),
                  StatusBody("draft"), StatusBody("completed"), StatusBody("archived"),
                  PutBody(<<>>, <<JSVal("num", -10)>>, <<"draft">>, <<>>, <<>>),
                  PutBody(<<"empty">>, <<JSVal("num", 0)>>, <<>>, <<>>, <<>>),
                  PutBody(<<"toolong">>, <<>>, <<>>, <<>>, <<>>),
                  PutBody(<<>>, <<>>, <<>>, <<NotAnObject>>, <<>>)},
   listQueries |-> {NoQuery},
   badHeaders |-> {}]

NextUpdate == ReportRequests(UpdateInputs)

SpecUpdate == InitSeeded /\ [][NextUpdate]_vars

\* ownership: two users and an admin read, update and delete the reports
\* of the two users
AccessInputs ==
  [callers |-> Users,
   posters |-> {"u1", "u2"},
   productIds |-> {1},
   postAnswers |-> {AnswersObj(<<"yes">>), NotAnObject},
   aiOutcomes |-> {GoodAI},
   draws |-> {0},
   faults |-> {"none"},
   putBodies |-> {NoBody, StatusBody("draft"), UserIdBody("u2"), UserIdBody("null"),
                  ScoreBody(JSVal("num", -10))},
   listQueries |-> {NoQuery, Query(<<>>, <<0>>, <<>>, <<>>, <<>>)},
   badHeaders |-> {}]

NextAccess == ReportRequests(AccessInputs)

SpecAccess == InitSeeded /\ [][NextAccess]_vars

\* listing and statistics over the reports of several users
StatsInputs ==
  [callers |-> Users,
   posters |-> {"u1", "u2"},
   productIds |-> {1},
   postAnswers |-> {AnswersObj(<<"yes">>)},
   aiOutcomes |-> {GoodAI},
   draws |-> {0},
   faults |-> {"none"},
   putBodies |-> {ScoreBody(JSVal("num", 190)), ScoreBody(JSVal("num", 200)),
                  StatusBody("pending")},
   listQueries |-> {NoQuery,
                    Query(<<>>, <<>>, <<"completed">>, <<>>, <<>>),
                    Query(<<>>, <<>>, <<>>, <<20>>, <<>>),
                    Query(<<>>, <<>>, <<>>, <<>>, <<20>>),
                    Query(<<2>>, <<1>>, <<>>, <<>>, <<>>),
                    Query(<<>>, <<0>>, <<>>, <<>>, <<>>)},
   badHeaders |-> {}]

NextStats == ReportRequests(StatsInputs)

SpecStats == InitSeeded /\ [][NextStats]_vars

-----------------------------------------------------------------------------
(* Report creation *)

\* the last request was a POST /api/reports with a well-formed body, and no
\* store operation threw while it was handled
WellFormedPost(l) ==
  /\ l.op = "post"
  /\ ValidPostBody(l.productId, l.answers)
  /\ l.fault = "none"

\* C4: POST /api/reports with a well-formed body whose productId matches no
\* stored product responds 404 and writes no report: the report store is
\* unchanged and the AI service is not called.
C4_UnknownProductNotFound ==
  [][(WellFormedPost(last') /\ last'.productId \notin DOMAIN products)
       => (last'.status = 404 /\ reports' = reports /\ ~last'.aiCalled)]_vars

\* a well-formed POST named a product that was deleted, after a report of
\* that product had been stored
C4_Witness ==
  /\ WellFormedPost(last)
  /\ last.productId \notin DOMAIN products
  /\ last.productId < nextProductId
  /\ reports # <<>>
  /\ last.status = 404

\* C5: when the AI call made during POST /api/reports fails, the request
\* for an existing product and well-formed answers still responds 201 and
\* persists a report with status completed and transparencyScore in 0..100;
\* the failure is never surfaced as an error or 5xx response.
C5_AIFailureAbsorbed ==
  (WellFormedPost(last) /\ last.productId \in DOMAIN products /\ last.aiDown)
    => /\ last.status = 201
       /\ last.aiCalled
       /\ last.id \in DOMAIN reports
       /\ reports[last.id].status = "completed"
       /\ reports[last.id].transparencyScore \in 0..100

\* the AI call failed during a POST for an existing product
C5_Witness ==
  /\ WellFormedPost(last)
  /\ last.productId \in DOMAIN products
  /\ last.aiDown
  /\ last.aiCalled
  /\ last.id \in DOMAIN reports

\* C6: in every state reachable by create and update requests every stored
\* report has a transparencyScore that is an integer in 0..100 (so a
\* completed report has a score >= 0), and an update whose score is not an
\* integer in 0..100 is rejected as a validation failure, leaving the
\* stored report unchanged.
C6_ScoreInvariant ==
  [][/\ \A id \in DOMAIN reports' :
          /\ reports'[id].transparencyScore \in 0..100
          /\ reports'[id].status = "completed" => reports'[id].transparencyScore >= 0
     /\ (last'.op = "put" /\ Sent(last'.body.transparencyScore)
           /\ ~IsIntBetween(last'.body.transparencyScore[1], 0, 100))
          => (last'.status = 400 /\ reports' = reports)]_vars

\* an update with a negative score was attempted on a stored, completed
\* report by its owner
C6_Witness ==
  /\ last.op = "put"
  /\ last.body.transparencyScore = <<JSVal("num", -10)>>
  /\ last.id \in DOMAIN reports
  /\ reports[last.id].status = "completed"
  /\ reports[last.id].userId = last.caller

\* an update stored a new, valid score
C6_WitnessAccepted ==
  /\ last.op = "put"
  /\ last.status = 200
  /\ last.body.transparencyScore = <<JSVal("num", 0)>>
  /\ reports[last.id].transparencyScore = 0

-----------------------------------------------------------------------------
(* Ownership *)

\* the step handled a GET, PUT or DELETE of a stored report that the caller
\* does not own (l is the response, the unprimed store is the one before)
OnReportOfAnother(l) ==
  /\ l.op \in {"get", "put", "delete"}
  /\ l.id \in DOMAIN reports
  /\ reports[l.id].userId # l.caller

\* the request left the store alone and returned no report
NothingDone(l) ==
  /\ reports' = reports
  /\ "data" \notin DOMAIN l

\* the request of an admin had the outcome the same request of the owner has
CarriedOutAsForOwner(l) ==
  CASE l.op = "get" ->
         /\ l.status = 200
         /\ l.data = reports[l.id]
         /\ reports' = reports
    [] l.op = "delete" ->
         /\ l.status = 200
         /\ DOMAIN reports' = DOMAIN reports \ {l.id}
         /\ \A i \in DOMAIN reports' : reports'[i] = reports[i]
    [] l.op = "put" ->
         LET asOwner == PutResult(reports, reports[l.id].userId, l.id, l.body)
         IN /\ l.status = asOwner.resp.status
            /\ reports' = asOwner.store
            /\ l.body = StatusBody("draft") =>
                 (l.status = 200 /\ reports'[l.id].status = "draft")

\* C2 as stated: a caller who is not the owner gets 403 from GET, PUT and
\* DELETE and nothing is returned, modified or removed, unless the caller
\* is an admin, for whom the operation is carried out as for the owner.
C2_OthersForbidden ==
  [][OnReportOfAnother(last') =>
       IF Role(last'.caller) # "admin"
       THEN last'.status = 403 /\ NothingDone(last')
       ELSE CarriedOutAsForOwner(last')]_vars

\* C2 amended: as C2, except that a PUT whose body fails validation is
\* answered 400, the validators running before the ownership check; the
\* report is still neither returned, modified nor removed.
C2_OthersForbiddenOrInvalid ==
  [][OnReportOfAnother(last') =>
       IF Role(last'.caller) # "admin"
       THEN /\ last'.status =
                 (IF last'.op = "put" /\ ~ValidPutBody(last'.body) THEN 400 ELSE 403)
            /\ NothingDone(last')
       ELSE CarriedOutAsForOwner(last')]_vars

\* a user was refused the update of a report owned by another user
C2_Witness ==
  /\ last.op = "put"
  /\ last.status = 403
  /\ last.caller = "u2"
  /\ last.id \in DOMAIN reports
  /\ reports[last.id].userId = "u1"

\* an admin deleted the report of a user
C2_WitnessAdmin ==
  /\ last.op = "delete"
  /\ last.status = 200
  /\ last.caller = "adm"
  /\ last.id < nextId
  /\ last.id \notin DOMAIN reports

\* C3: a report is exclusively owned by its creating user: every stored
\* report's userId is the user whose POST created it, and PUT never changes
\* a report's userId.
C3_OwnedByCreator ==
  [][/\ \A id \in DOMAIN reports' : reports'[id].userId = reports'[id].creator
     /\ last'.op = "put" =>
          \A id \in DOMAIN reports \cap DOMAIN reports' :
             reports'[id].userId = reports[id].userId]_vars

-----------------------------------------------------------------------------
(* Listing and statistics *)

ReportsOf(store, user) == {id \in DOMAIN store : store[id].userId = user}

\* C7: every report returned by GET /api/reports has userId equal to the
\* caller, and total counts only the caller's reports (those the query
\* selects), for every caller including an admin.
C7_ListScoped ==
  (last.op = "list" /\ last.status = 200) =>
    /\ \A k \in 1..Len(last.data) :
          /\ last.data[k].report.userId = last.caller
          /\ last.data[k].id \in DOMAIN reports
          /\ last.data[k].report = reports[last.data[k].id]
    /\ last.count = Len(last.data)
    /\ last.total <= Cardinality(ReportsOf(reports, last.caller))
    /\ last.total =
         Cardinality({id \in ReportsOf(reports, last.caller) :
            /\ Sent(last.query.status) => reports[id].status = last.query.status[1]
            /\ Sent(last.query.minScore) =>
                 reports[id].transparencyScore >= last.query.minScore[1]
            /\ Sent(last.query.maxScore) =>
                 reports[id].transparencyScore <= last.query.maxScore[1]})

\* a user listed their reports while another user had reports too
C7_Witness ==
  /\ last.op = "list"
  /\ last.status = 200
  /\ last.caller = "u1"
  /\ Len(last.data) >= 1
  /\ ReportsOf(reports, "u2") # {}

\* an admin listed reports while users had reports, and got none
C7_WitnessAdmin ==
  /\ last.op = "list"
  /\ last.status = 200
  /\ last.caller = "adm"
  /\ reports # <<>>
  /\ last.total = 0

\* documents other users may own
OtherDocs(user) ==
  {[productId |-> 1, userId |-> u, creator |-> u, transparencyScore |-> sc,
    status |-> "draft", answers |-> AnswersObj(<<>>)] :
     u \in Users \ {user}, sc \in {0, 100}}

\* the stores that hold the same reports of user as store does, and any
\* reports of other users under the remaining ids
StoresAgreeingOn(store, user) ==
  LET mine == ReportsOf(store, user)
      free == (1..MaxReports) \ mine
  IN UNION {{[id \in mine \cup D |-> IF id \in mine THEN store[id] ELSE f[id]] :
               f \in [D -> OtherDocs(user)]} : D \in SUBSET free}

\* C8: the statistics depend only on the reports owned by the caller: every
\* store that agrees with the present one on the caller's reports gives the
\* same overview and histogram, and totalReports is the number of the
\* caller's reports.
C8_StatsDependOnOwnReports ==
  last.op = "stats" =>
    /\ \A other \in StoresAgreeingOn(reports, last.caller) :
          StatsResponse(other, last.caller) = last
    /\ last.overview.totalReports = Cardinality(ReportsOf(reports, last.caller))

\* a user with a report asked for the statistics while another user had
\* reports with other scores
C8_Witness ==
  /\ last.op = "stats"
  /\ last.caller = "u1"
  /\ ReportsOf(reports, "u1") # {}
  /\ \E i \in ReportsOf(reports, "u2"), j \in ReportsOf(reports, "u1") :
        reports[i].transparencyScore # reports[j].transparencyScore

\* C9: when the caller owns no reports the overview responds 200 with
\* totalReports, averageScore, maxScore, minScore, completedReports,
\* pendingReports and draftReports all equal to 0.
C9_EmptyOverviewZeroed ==
  (last.op = "stats" /\ ReportsOf(reports, last.caller) = {}) =>
    /\ last.status = 200
    /\ last.overview.totalReports = 0
    /\ last.overview.averageScore.num = 0
    /\ last.overview.averageScore.den # 0
    /\ last.overview.maxScore = 0
    /\ last.overview.minScore = 0
    /\ last.overview.completedReports = 0
    /\ last.overview.pendingReports = 0
    /\ last.overview.draftReports = 0

\* a caller without reports asked for the statistics while others had some
C9_Witness ==
  /\ last.op = "stats"
  /\ ReportsOf(reports, last.caller) = {}
  /\ reports # <<>>

\* the number of documents the histogram reports for a bucket
BucketCount(dist, name) == IF name \in DOMAIN dist THEN dist[name] ELSE 0

\* C10: the histogram uses the ranges [0,20),[20,40),[40,60),[60,80),
\* [80,100]: every report in scope is counted in exactly one of these five
\* ranges, and a report with transparencyScore 100 is counted in [80,100].
C10_FiveRanges ==
  last.op = "stats" =>
    LET mine == ReportsOf(reports, last.caller)
        InRange(k) == {id \in mine :
                         /\ reports[id].transparencyScore >= 20 * k
                         /\ reports[id].transparencyScore < 20 * (k + 1)
                            \/ (k = 4 /\ reports[id].transparencyScore = 100)}
    IN /\ DOMAIN last.scoreDistribution \subseteq {"0", "20", "40", "60", "80"}
       /\ \A k \in 0..4 :
            BucketCount(last.scoreDistribution, BucketName(20 * k))
              = Cardinality(InRange(k))

-----------------------------------------------------------------------------
(* Inputs of the scorer *)

\* scores in tenths: every integer 0..100, fractions, negatives, above 100
NumTenths ==
  {10 * k : k \in 0..100} \cup {-15, -5, -4, 4, 5, 704, 705, 995, 1004, 1005, 1010, 2500}

ScoreVals ==
  {JSVal(k, 0) : k \in {"undefined", "null", "emptystr", "nonnumeric",
                        "nan", "posinf", "neginf"}}
  \cup {JSVal("num", t) : t \in NumTenths}

\* transparencyScore / score pairs: score is only read when transparencyScore
\* is null or undefined
ScorePairs ==
  {<<v, Undefined>> : v \in ScoreVals}
  \cup {<<v, w>> : v \in {JSVal("undefined", 0), JSVal("null", 0)}, w \in ScoreVals}

\* questions / expectedQuestions pairs
QuestionPairs ==
  {<<q, NotArray>> : q \in {NotArray} \cup 0..MaxQuestions}
  \cup {<<NotArray, q>> : q \in 0..MaxQuestions}
  \cup {<<q, MaxQuestions>> : q \in 0..1}

ScorerAIResults ==
  {AbsentAI} \cup {AIResult(sp, qp, FALSE, TRUE) : sp \in ScorePairs, qp \in QuestionPairs}

AnswerVals == {"yes", ""}

AnswerMaps ==
  {AnswersObj([i \in 1..n |-> v]) : n \in 0..MaxAnswers, v \in AnswerVals}

ScorerInputs ==
  [aiResult : ScorerAIResults, category : CategoryNames,
   answers : AnswerMaps \cup {NotAnObject}]

\* the draws Math.floor(Math.random() * 40) can make
RandomDraws == 0..39

-----------------------------------------------------------------------------
(* The scorer applied to one input *)

ScorerIdleStore ==
  /\ products = <<>>
  /\ nextProductId = 1
  /\ reports = <<>>
  /\ nextId = 1
  /\ last = [op |-> "none"]
  /\ authorization = NoHeader
  /\ inflight = [s \in Slots |-> Idle]

InitScorer ==
  /\ ScorerIdleStore
  /\ scIn \in ScorerInputs
  /\ scOut = <<>>

ScoreApply ==
  /\ scOut = <<>>
  /\ \E rnd \in (IF NeedsRandom(scIn.aiResult) THEN RandomDraws ELSE {0}) :
       scOut' = <<deriveTransparencyScore(scIn.aiResult, scIn.category, scIn.answers, rnd)>>
  /\ UNCHANGED <<products, nextProductId, reports, nextId, last, authorization, inflight, scIn>>

NextScorer == ScoreApply

SpecScorer == InitScorer /\ [][NextScorer]_vars

\* C1: for every aiResult (absent, or with a score that is missing,
\* non-numeric, NaN, infinite, negative or above 100, with or without a
\* question list), every category and every answers mapping,
\* deriveTransparencyScore returns an integer in 0..100.
C1_ScoreInRange ==
  scOut # <<>> => scOut[1] \in 0..100

\* a malformed AI score (infinite, NaN, negative or above 100) was scored
C1_Witness ==
  /\ scOut # <<>>
  /\ scIn.aiResult.transparencyScore \in
       {JSVal("posinf", 0), JSVal("nan", 0), JSVal("num", -15), JSVal("num", 2500)}
  /\ scIn.aiResult.questions = 0
  /\ Len(scIn.answers.vals) = MaxAnswers

-----------------------------------------------------------------------------
(* Authentication *)

\* requests with and without a usable credential
AuthInputs ==
  [callers |-> {"u1"},
   posters |-> {"u1"},
   productIds |-> {1},
   postAnswers |-> {AnswersObj(<<"yes">>)},
   aiOutcomes |-> {GoodAI},
   draws |-> {0},
   faults |-> {"none"},
   putBodies |-> {StatusBody("draft"), ScoreBody(JSVal("num", 500))},
   listQueries |-> {NoQuery},
   badHeaders |-> {NoHeader,
                   Header("Bearer", <<>>),
                   Header("Basic", <<Token(TRUE, "u1")>>),
                   Header("Bearer", <<Token(FALSE, "u1")>>),
                   BearerOf("ghost"),
                   BearerOf("off")}]

NextAuth == ReportRequests(AuthInputs)

SpecAuth == InitSeeded /\ [][NextAuth]_vars

ReportOps == {"post", "get", "put", "delete", "list", "stats"}

\* the header holds no bearer credential, or one that fails verification,
\* or one of an unknown or deactivated user
LacksValidCredential(header) ==
  \/ header.scheme # "Bearer"
  \/ header.token = <<>>
  \/ ~header.token[1].verifies
  \/ header.token[1].id \notin Users

\* C11: a request to /api/reports that lacks a valid bearer credential
\* (absent, failing verification, or of an unknown or deactivated user) is
\* answered 401 and its handler is not run: no report is created, changed
\* or deleted and the answer carries no report data.
C11_NoCredentialNoAccess ==
  [][(last'.op \in ReportOps /\ LacksValidCredential(authorization'))
       => /\ last'.status = 401
          /\ reports' = reports
          /\ nextId' = nextId
          /\ DOMAIN last' = {"op", "status"}]_vars

\* a deactivated user's DELETE of an existing report was answered 401 and
\* the report is still there
C11_Witness ==
  /\ last = Unauthorized("delete")
  /\ authorization = BearerOf("off")
  /\ reports # <<>>

-----------------------------------------------------------------------------
(* Deletion *)

\* the ids of the reports that were stored and then deleted (an id is
\* given once, and only a successful DELETE takes a report out of the store)
Deleted == {id \in 1..(nextId - 1) : id \notin DOMAIN reports}

\* a successful DELETE is the owner's or an admin's, and removes the report
\* it names and no other
DeleteRemovesOne ==
  (last'.op = "delete" /\ last'.status = 200)
    => /\ last'.id \in DOMAIN reports
       /\ \/ reports[last'.id].userId = last'.caller
          \/ Role(last'.caller) = "admin"
       /\ DOMAIN reports' = DOMAIN reports \ {last'.id}
       /\ \A i \in DOMAIN reports' : reports'[i] = reports[i]

\* the last request reads, updates or deletes a report deleted before
OnDeleted ==
  /\ last'.op \in {"get", "put", "delete"}
  /\ last'.id \in Deleted

-----------------------------------------------------------------------------
(* The created report *)

\* C13: a POST /api/reports answered 201 adds exactly one report to the
\* store, with status completed, userId the caller, productId the requested
\* product (which exists), answers the submitted mapping, and
\* transparencyScore the scorer's output for the analysis, the product and
\* the answers, not the score of the analysis itself.
C13_CreatedReport ==
  [][(last'.op = "post" /\ last'.status = 201)
       => /\ last'.id \notin DOMAIN reports
          /\ DOMAIN reports' = DOMAIN reports \cup {last'.id}
          /\ \A i \in DOMAIN reports : reports'[i] = reports[i]
          /\ last'.productId \in DOMAIN products
          /\ LET r == reports'[last'.id]
             IN /\ r.status = "completed"
                /\ r.userId = last'.caller
                /\ r.productId = last'.productId
                /\ r.answers = last'.answers
                /\ r.transparencyScore =
                     deriveTransparencyScore(last'.analysis,
                                             products[last'.productId].category,
                                             last'.answers, last'.draw)]_vars

\* a POST was answered 201 for an analysis with score 70 and the stored
\* report has the scorer's 87
C13_Witness ==
  /\ last.op = "post"
  /\ last.status = 201
  /\ last.analysis.transparencyScore = JSVal("num", 700)
  /\ last.id \in DOMAIN reports
  /\ reports[last.id].transparencyScore = 87

-----------------------------------------------------------------------------
(* Status *)

\* the owner and an admin move the status of the owner's reports
StatusInputs ==
  [callers |-> {"u1", "adm"},
   posters |-> {"u1"},
   productIds |-> {1},
   postAnswers |-> {AnswersObj(<<"yes">>)},
   aiOutcomes |-> {GoodAI},
   draws |-> {0},
   faults |-> {"none"},
   putBodies |-> {StatusBody("draft"), StatusBody("pending"), StatusBody("completed"),
                  StatusBody("archived"), StatusBody("")},
   listQueries |-> {NoQuery},
   badHeaders |-> {}]

NextStatus == ReportRequests(StatusInputs)

SpecStatus == InitSeeded /\ [][NextStatus]_vars

\* C14: status is advisory.  A PUT by the owner or an admin that sends one
\* of draft, pending or completed sets the status of the report to it,
\* whatever the status was (completed to draft and completed to pending
\* included), and the status of a stored report is never outside these
\* three values.
C14_StatusAdvisory ==
  /\ [](\A id \in DOMAIN reports : reports[id].status \in {"draft", "pending", "completed"})
  /\ [][\A st \in {"draft", "pending", "completed"} :
          (/\ last'.op = "put"
           /\ last'.body = StatusBody(st)
           /\ last'.id \in DOMAIN reports
           /\ \/ reports[last'.id].userId = last'.caller
              \/ Role(last'.caller) = "admin")
            => /\ last'.status = 200
               /\ reports' = [reports EXCEPT ![last'.id].status = st]]_vars

\* both reports started completed; the admin has put one back to draft and
\* the owner has just put the other to pending
C14_Witness ==
  /\ DOMAIN reports = {1, 2}
  /\ reports[1].status = "draft"
  /\ reports[2].status = "pending"
  /\ last.op = "put"
  /\ last.caller = "u1"
  /\ last.id = 2
  /\ last.body = StatusBody("pending")
  /\ last.status = 200

-----------------------------------------------------------------------------
(* The fallback analysis *)

\* C15: when the AI call of a report creation fails, the analysis the
\* handler goes on with has a summary (templated from the product name) and
\* carries no transparencyScore, so that the scorer takes its base from its
\* own fallback baseline (its Math.random draw) and not from a score in the
\* analysis.
C15_FallbackHasNoScore ==
  (WellFormedPost(last) /\ last.aiCalled /\ last.aiDown)
    => /\ last.analysis.summaryOk
       /\ last.analysis.transparencyScore = Undefined
       /\ last.analysis.score = Undefined
       /\ NeedsRandom(last.analysis)

-----------------------------------------------------------------------------
(* The scorer applied twice to one input *)

\* AI results with and without a finite score
TwiceAIResults ==
  {AbsentAI,
   AIScore(700),
   AIResult(<<JSVal("nonnumeric", 0), Undefined>>, <<2, NotArray>>, FALSE, TRUE),
   AIResult(<<Undefined, JSVal("nan", 0)>>, <<NotArray, NotArray>>, FALSE, TRUE)}

InitScorerTwice ==
  /\ ScorerIdleStore
  /\ scIn \in [aiResult : TwiceAIResults, category : CategoryNames, answers : AnswerMaps]
  /\ scOut = <<>>

\* a second call of deriveTransparencyScore with the same arguments; the
\* call makes its own Math.random draw
ScoreAgain ==
  /\ Len(scOut) = 1
  /\ \E rnd \in (IF NeedsRandom(scIn.aiResult) THEN RandomDraws ELSE {0}) :
       scOut' = Append(scOut,
                       deriveTransparencyScore(scIn.aiResult, scIn.category, scIn.answers, rnd))
  /\ UNCHANGED <<products, nextProductId, reports, nextId, last, authorization, inflight, scIn>>

NextScorerTwice ==
  \/ ScoreApply
  \/ ScoreAgain

SpecScorerTwice == InitScorerTwice /\ [][NextScorerTwice]_vars

\* C16: the scorer is deterministic: two invocations with the same
\* aiResult, product and answers return the same score, also when the AI
\* result carries no finite score and the fallback baseline is used.
C16_ScorerDeterministic ==
  Len(scOut) = 2 => scOut[1] = scOut[2]

-----------------------------------------------------------------------------
(* POST /api/reports as the steps of its handler: up to the AI call, the
   answer of the AI service, and from the answer to the response *)

\* the POST requests that await the AI service or its continuation
PostsInFlight == {s \in Slots : inflight[s].phase \in {"awaitingAI", "aiSettled"}}

\* protect, the validators and Product.findById; the handler then sends the
\* AI call and awaits it.  The outcome of the AI call plays no part in a
\* response sent before the call.
PostBegin(inp, s) ==
  /\ inflight[s] = Idle
  /\ nextId + Cardinality(PostsInFlight) <= MaxReports
  /\ \E header \in Headers(inp, inp.posters), productId \in inp.productIds,
        answers \in inp.postAnswers, fault \in inp.faults \cap {"none", "findProduct"} :
       LET auth == protect(header)
           r == PostResult(reports, products, nextId, auth.user, productId, answers,
                           AIFailed, 0, 0, fault)
       IN IF ~auth.ok
          THEN /\ last' = Unauthorized("post")
               /\ authorization' = header
               /\ UNCHANGED inflight
          ELSE IF ~r.resp.aiCalled
          THEN /\ last' = r.resp
               /\ authorization' = header
               /\ UNCHANGED inflight
          ELSE /\ inflight' = [inflight EXCEPT ![s] =
                                 [phase |-> "awaitingAI", op |-> "post", header |-> header,
                                  user |-> auth.user, productId |-> productId,
                                  answers |-> answers, ai |-> <<>>]]
               /\ UNCHANGED <<last, authorization>>
  /\ UNCHANGED <<products, nextProductId, reports, nextId, scIn, scOut>>

\* the promise of axios.post settles: the AI service answered, or the call
\* failed.  No timeout is given to axios.post, so nothing else settles it.
AIReplies(inp, s) ==
  /\ inflight[s].phase = "awaitingAI"
  /\ \E ai \in inp.aiOutcomes :
       inflight' = [inflight EXCEPT ![s] = [@ EXCEPT !.phase = "aiSettled", !.ai = <<ai>>]]
  /\ UNCHANGED <<products, nextProductId, reports, nextId, last, authorization, scIn, scOut>>

\* the rest of the handler: fallback analysis, scorer, Report.create, response
PostComplete(inp, s) ==
  /\ inflight[s].phase = "aiSettled"
  /\ LET f == inflight[s]
         ai == f.ai[1]
     IN \E fault \in inp.faults \ {"findProduct"} :
          \E rnd1 \in (IF ai.failed THEN inp.draws ELSE {0}) :
            \E rnd2 \in (IF ~ai.failed /\ NeedsRandom(ai.data) THEN inp.draws ELSE {0}) :
              LET r == PostResult(reports, products, nextId, f.user, f.productId,
                                  f.answers, ai, rnd1, rnd2, fault)
              IN /\ reports' = r.store
                 /\ nextId' = IF nextId \in DOMAIN r.store THEN nextId + 1 ELSE nextId
                 /\ last' = r.resp
                 /\ authorization' = f.header
  /\ inflight' = [inflight EXCEPT ![s] = Idle]
  /\ UNCHANGED <<products, nextProductId, scIn, scOut>>

\* report creations in flight, next to reads and deletes
LiveInputs ==
  [callers |-> {"u1"},
   posters |-> {"u1"},
   productIds |-> {MalformedId, 1},
   postAnswers |-> {AnswersObj(<<"yes">>)},
   aiOutcomes |-> {AIFailed, GoodAI},
   draws |-> {0},
   faults |-> {"none", "create"},
   putBodies |-> {NoBody},
   listQueries |-> {NoQuery},
   badHeaders |-> {NoHeader}]

NextLive ==
  \/ \E s \in Slots : PostBegin(LiveInputs, s)
  \/ \E s \in Slots : AIReplies(LiveInputs, s)
  \/ \E s \in Slots : PostComplete(LiveInputs, s)
  \/ GetReport(LiveInputs)
  \/ DeleteReport(LiveInputs)

\* the event loop runs the continuation of a handler whose awaited promise
\* has settled; the AI service is not bound to answer
SpecLive ==
  /\ InitSeeded
  /\ [][NextLive]_vars
  /\ \A s \in Slots : WF_vars(PostComplete(LiveInputs, s))

\* C17: every POST /api/reports eventually receives a response, even when
\* the AI service never answers: the AI call is bounded by a timeout, after
\* which the fallback analysis is used and the request completes.
C17_PostAnswered ==
  \A s \in Slots : (inflight[s].phase = "awaitingAI") ~> (inflight[s] = Idle)

-----------------------------------------------------------------------------
(* PUT /api/reports/:id as the two steps of its handler: up to the document
   Report.findById returns, and from Object.assign to the response *)

\* the saves other requests made to the document since it was read: how many
\* (2 stands for two or more) and, for one, the body that was saved
NoneSince == [n |-> 0, body |-> NoBody]

SavedSince(since, body) ==
  IF since.n = 0 THEN [n |-> 1, body |-> body] ELSE [n |-> 2, body |-> NoBody]

\* report.save() of a document read earlier: the update sets the paths whose
\* value the request changed in its copy (a path assigned the value the
\* copy already had is not modified); cur is the stored document, snap the
\* copy as it was read, doc the copy after Object.assign
SaveModified(cur, snap, doc) ==
  [cur EXCEPT
     !.transparencyScore =
        IF doc.transparencyScore # snap.transparencyScore THEN doc.transparencyScore ELSE @,
     !.status = IF doc.status # snap.status THEN doc.status ELSE @,
     !.answers = IF doc.answers # snap.answers THEN doc.answers ELSE @,
     !.userId = IF doc.userId # snap.userId THEN doc.userId ELSE @]

\* protect, the validators, Report.findById and the ownership check; the
\* handler goes on with its copy of the document
PutBegin(inp, s) ==
  /\ inflight[s] = Idle
  /\ \E header \in Headers(inp, inp.callers), id \in 1..MaxReports,
        body \in inp.putBodies :
       LET auth == protect(header)
           r == PutResult(reports, auth.user, id, body)
       IN IF ~auth.ok
          THEN /\ last' = Unauthorized("put")
               /\ authorization' = header
               /\ UNCHANGED inflight
          ELSE IF r.resp.status \in {400, 403, 404}
          THEN /\ last' = r.resp
               /\ authorization' = header
               /\ UNCHANGED inflight
          ELSE /\ inflight' = [inflight EXCEPT ![s] =
                                 [phase |-> "loaded", op |-> "put", header |-> header,
                                  user |-> auth.user, id |-> id, body |-> body,
                                  doc |-> Loaded(reports[id]), since |-> NoneSince]]
               /\ UNCHANGED <<last, authorization>>
  /\ UNCHANGED <<products, nextProductId, reports, nextId, scIn, scOut>>

\* mutant: a save of a document that is no longer stored inserts it again
SaveLoadedUpsert(store, id, snap, doc) ==
  IF ~(SchemaValid(doc) /\ PreSaveOk(doc))
  THEN [store |-> store, ok |-> FALSE]
  ELSE IF id \notin DOMAIN store
  THEN [store |-> StorePut(store, id, Stored(doc)), ok |-> TRUE]
  ELSE [store |-> [store EXCEPT ![id] = SaveModified(@, Stored(snap), Stored(doc))],
        ok |-> TRUE]

\* report.save() of a document read earlier (snap), after Object.assign (doc):
\* validation and the pre-save hook, then an update of the stored document by
\* its id.  The update of a document that is no longer stored matches
\* nothing and save() throws (DocumentNotFoundError); it never inserts
SaveLoaded(store, id, snap, doc) ==
  IF ~(SchemaValid(doc) /\ PreSaveOk(doc))
  THEN [store |-> store, ok |-> FALSE]
  ELSE IF id \notin DOMAIN store
  THEN [store |-> store, ok |-> FALSE]
  ELSE [store |-> [store EXCEPT ![id] = SaveModified(@, Stored(snap), Stored(doc))],
        ok |-> TRUE]

\* Object.assign, report.save() and the response
PutSave(s) ==
  /\ inflight[s].phase = "loaded"
  /\ LET f == inflight[s]
         doc == AssignBody(f.doc, f.body)
         r == SaveLoaded(reports, f.id, f.doc, doc)
         saved == r.ok
     IN /\ reports' = r.store
        /\ last' = [op |-> "put", caller |-> f.user, id |-> f.id, body |-> f.body,
                    status |-> IF saved THEN 200 ELSE 500]
        /\ authorization' = f.header
        /\ inflight' = [t \in Slots |->
                          IF t = s THEN Idle
                          ELSE IF saved /\ inflight[t].phase = "loaded" /\ inflight[t].id = f.id
                          THEN [inflight[t] EXCEPT !.since = SavedSince(@, f.body)]
                          ELSE inflight[t]]
  /\ UNCHANGED <<products, nextProductId, nextId, scIn, scOut>>

\* the owner updates the same reports from two clients at the same time
ConcInputs ==
  [callers |-> {"u1"},
   posters |-> {"u1"},
   productIds |-> {1},
   postAnswers |-> {AnswersObj(<<"yes">>)},
   aiOutcomes |-> {GoodAI},
   draws |-> {0},
   faults |-> {"none"},
   putBodies |-> {StatusBody("draft"), StatusBody("completed"),
                  PutBody(<<>>, <<JSVal("num", 500)>>, <<"draft">>, <<>>, <<>>),
                  ScoreBody(JSVal("num", 1010))},
   listQueries |-> {NoQuery},
   badHeaders |-> {}]

NextConc ==
  \/ PostReport(ConcInputs)
  \/ \E s \in Slots : PutBegin(ConcInputs, s)
  \/ \E s \in Slots : PutSave(s)

SpecConc == InitSeeded /\ [][NextConc]_vars

\* the value a body gives to a field it sends
BodyValue(body, field) ==
  IF field = "status" THEN body.status[1]
  ELSE body.transparencyScore[1].tenths \div 10

\* C18: concurrent updates of one report follow last-write-wins.  When two
\* PUT requests on one report interleave (each reads the report before the
\* other saves), both succeed, and once both have completed every field
\* that both requests set holds the value of the request that saved last.
C18_LastWriteWins ==
  [][\A s \in Slots :
       (/\ inflight[s].phase = "loaded"
        /\ inflight'[s] = Idle
        /\ inflight[s].since.n = 1)
         => /\ last'.status = 200
            /\ \A field \in {"status", "transparencyScore"} :
                 (Sent(inflight[s].body[field]) /\ Sent(inflight[s].since.body[field]))
                   => reports'[inflight[s].id][field] = BodyValue(inflight[s].body, field)]_vars

-----------------------------------------------------------------------------
(* Rejected requests *)

\* C19: a request to /api/reports that is rejected for validation (400) or
\* for ownership (403) leaves the store untouched: the same reports are
\* stored after it as before it, with every field unchanged.
C19_RejectedLeavesStore ==
  [][(last'.op \in ReportOps /\ last'.status \in {400, 403})
       => /\ reports' = reports
          /\ nextId' = nextId]_vars

\* u2's PUT of u1's report, asking for the report to become u2's, was
\* answered 403 and the report is u1's
C19_Witness ==
  /\ last.op = "put"
  /\ last.caller = "u2"
  /\ last.body = UserIdBody("u2")
  /\ last.status = 403
  /\ last.id \in DOMAIN reports
  /\ reports[last.id].userId = "u1"

\* a POST whose answers are not an object was answered 400 with reports in
\* the store
C19_WitnessInvalid ==
  /\ last.op = "post"
  /\ last.answers = NotAnObject
  /\ last.status = 400
  /\ reports # <<>>

-----------------------------------------------------------------------------
(* A worked score *)

\* the answers cover every question: the AI declared no question list and
\* there is at least one answer, or it declared at least one question and
\* there are as many answers or more
FullyAnswered(in) ==
  LET declared == IF in.aiResult.questions # NotArray THEN in.aiResult.questions
                  ELSE in.aiResult.expectedQuestions
      given == Len(in.answers.vals)
  IN /\ in.answers.isObject
     /\ \/ declared = NotArray /\ given >= 1
        \/ declared # NotArray /\ declared >= 1 /\ given >= declared

\* C20: for an AI score of 70, a completeness ratio of 1.0 and a Skincare
\* product (category boost 5) the scorer returns
\* round(70*0.6 + 100*0.4) + 5 = 87.
C20_WorkedScore ==
  (/\ scOut # <<>>
   /\ ~scIn.aiResult.isNull
   /\ scIn.aiResult.transparencyScore = JSVal("num", 700)
   /\ scIn.category = "Skincare"
   /\ FullyAnswered(scIn))
    => scOut[1] = 87

\* the scorer was applied to score 70, three declared questions, four
\* answers and a Skincare product
C20_Witness ==
  /\ scOut = <<87>>
  /\ ~scIn.aiResult.isNull
  /\ scIn.aiResult.transparencyScore = JSVal("num", 700)
  /\ scIn.aiResult.questions = 3
  /\ Len(scIn.answers.vals) = 4
  /\ scIn.category = "Skincare"

-----------------------------------------------------------------------------
(* A worked score with a penalty *)

\* the length of the question list the AI declared (questions, else
\* expectedQuestions), NotArray when it declared none
DeclaredQuestions(aiResult) ==
  IF aiResult.questions # NotArray THEN aiResult.questions
  ELSE aiResult.expectedQuestions

\* the number of answer keys submitted
AnswerKeys(answersObj) ==
  IF answersObj.isObject THEN Len(answersObj.vals) ELSE 0

\* C21: for an AI score of 50 and a completeness ratio of 0.2 (one answer
\* key against five AI-declared questions) the scorer subtracts the penalty
\* floor(0.8*5) = 4 and returns round(50*0.6 + 20*0.4) - 4 = 34, for every
\* product category.
C21_PenaltyScore ==
  (/\ scOut # <<>>
   /\ ~scIn.aiResult.isNull
   /\ scIn.aiResult.transparencyScore = JSVal("num", 500)
   /\ DeclaredQuestions(scIn.aiResult) = 5
   /\ AnswerKeys(scIn.answers) = 1)
    => scOut[1] = 34

\* the scorer was applied to score 50, five declared questions, one answer
\* and a Skincare product (whose boost is 5)
C21_Witness ==
  /\ scOut = <<34>>
  /\ ~scIn.aiResult.isNull
  /\ scIn.aiResult.transparencyScore = JSVal("num", 500)
  /\ scIn.aiResult.questions = 5
  /\ scIn.answers = AnswersObj(<<"yes">>)
  /\ scIn.category = "Skincare"

-----------------------------------------------------------------------------
(* The scorer with its intermediate values: base, completenessRatio and
   categoryBoost next to the returned score *)

\* scores with and without a fraction, in and out of 0..100
PartsTenths == {-15, -5, 0, 4, 5, 10, 390, 500, 700, 704, 705, 995, 1000, 1004, 1005, 2500}

PartsScoreVals ==
  {JSVal(k, 0) : k \in {"undefined", "null", "emptystr", "nonnumeric",
                        "nan", "posinf", "neginf"}}
  \cup {JSVal("num", t) : t \in PartsTenths}

PartsScorePairs ==
  {<<v, Undefined>> : v \in PartsScoreVals}
  \cup {<<v, w>> : v \in {JSVal("undefined", 0), JSVal("null", 0)}, w \in PartsScoreVals}

PartsAIResults ==
  {AbsentAI}
  \cup {AIResult(sp, qp, FALSE, TRUE) : sp \in PartsScorePairs, qp \in QuestionPairs}

InitParts ==
  /\ ScorerIdleStore
  /\ scIn \in [aiResult : PartsAIResults, category : CategoryNames,
               answers : AnswerMaps \cup {NotAnObject}]
  /\ scOut = <<>>

ScoreParts ==
  /\ scOut = <<>>
  /\ \E rnd \in (IF NeedsRandom(scIn.aiResult) THEN RandomDraws ELSE {0}) :
       scOut' = <<[base |-> ScorerBase(scIn.aiResult, rnd),
                   ratio |-> completenessRatio(scIn.aiResult, scIn.answers),
                   boost |-> categoryBoost(scIn.category),
                   score |-> deriveTransparencyScore(scIn.aiResult, scIn.category,
                                                     scIn.answers, rnd)]>>
  /\ UNCHANGED <<products, nextProductId, reports, nextId, last, authorization, inflight, scIn>>

NextParts == ScoreParts

SpecParts == InitParts /\ [][NextParts]_vars

\* the score the AI provided: transparencyScore, else score; a field that
\* is undefined or null is not provided
ProvidedScore(aiResult) ==
  IF aiResult.transparencyScore.kind \notin {"undefined", "null"}
  THEN aiResult.transparencyScore
  ELSE aiResult.score

\* C22: the scorer's base equals the AI-provided score (transparencyScore,
\* else score) clamped to [0,100] whenever that score is present and
\* finite; whenever it is absent or not finite the base is an integer in
\* 40..79, and no other base is used.
C22_BaseFromAI ==
  scOut # <<>> =>
    LET provided == ProvidedScore(scIn.aiResult)
    IN IF ~scIn.aiResult.isNull /\ provided.kind = "num"
       THEN 10 * scOut[1].base = Max2(0, Min2(1000, provided.tenths))
       ELSE scOut[1].base \in 40..79


\* ratio (a fraction num/den) is min(1, a/q) for q > 0
IsMinOneOf(ratio, a, q) ==
  IF a >= q THEN ratio.num = ratio.den ELSE ratio.num * q = ratio.den * a

\* the question count of the claim: the length of the declared list when
\* there is one, else max(1, number of answer keys)
ClaimedQuestionCount(in) ==
  IF DeclaredQuestions(in.aiResult) # NotArray THEN DeclaredQuestions(in.aiResult)
  ELSE Max2(1, AnswerKeys(in.answers))

\* C23 (as claimed): for every input the completeness ratio is
\* min(1, answeredCount / questionCount), questionCount being the length of
\* the AI-declared question list when there is one (of any length, the
\* empty list included) and max(1, answeredCount) otherwise.  With an empty
\* list answeredCount / 0 is Infinity for answeredCount > 0, so min gives 1,
\* and is not a number for answeredCount = 0.
C23_RatioIsMin ==
  scOut # <<>> =>
    LET a == AnswerKeys(scIn.answers)
        q == ClaimedQuestionCount(scIn)
    IN IF q > 0 THEN IsMinOneOf(scOut[1].ratio, a, q)
       ELSE a > 0 /\ scOut[1].ratio.num = scOut[1].ratio.den

\* C23 (amended): the completeness ratio is min(1, answeredCount /
\* questionCount) when questionCount is positive, and 0 when the AI declared
\* an empty question list.
C23_RatioIsMinOrZero ==
  scOut # <<>> =>
    LET a == AnswerKeys(scIn.answers)
        q == ClaimedQuestionCount(scIn)
    IN IF q > 0 THEN IsMinOneOf(scOut[1].ratio, a, q)
       ELSE scOut[1].ratio.num = 0

\* more answers than declared questions: the ratio is capped at 1
C23_Witness ==
  /\ scOut # <<>>
  /\ scIn.aiResult.questions = 2
  /\ AnswerKeys(scIn.answers) = 3
  /\ scOut[1].ratio = [num |-> 1, den |-> 1]

\* an empty declared list with answers: the ratio is 0
C23_WitnessEmptyList ==
  /\ scOut # <<>>
  /\ scIn.aiResult.questions = 0
  /\ AnswerKeys(scIn.answers) = 2
  /\ scOut[1].ratio.num = 0


\* C24: the category boost is chosen by case-insensitive substring match
\* against the table skincare 5, food 4, personal or care 3, cleaning 3,
\* clothing or apparel 2, electronics 1, else 0: the seven product
\* categories give Skincare 5, Food & Beverage 4, Personal Care 3, Cleaning
\* Products 3, Clothing 2, Electronics 1, Other 0, and a missing category
\* gives 0 (APPAREL and Healthcare, outside the enum, give 2 and 3).
C24_CategoryBoost ==
  scOut # <<>> =>
    scOut[1].boost =
      CASE scIn.category = "Skincare"          -> 5
        [] scIn.category = "Food & Beverage"   -> 4
        [] scIn.category = "Personal Care"     -> 3
        [] scIn.category = "Cleaning Products" -> 3
        [] scIn.category = "Clothing"          -> 2
        [] scIn.category = "Electronics"       -> 1
        [] scIn.category = "Other"             -> 0
        [] scIn.category = ""                  -> 0
        [] scIn.category = "APPAREL"           -> 2
        [] scIn.category = "Healthcare"        -> 3

\* a Skincare product, whose name also holds "care", was scored with boost 5
C24_Witness ==
  /\ scOut # <<>>
  /\ scIn.category = "Skincare"
  /\ scOut[1].boost = 5


\* C25: from computed = round(base*0.6 + round(ratio*100)*0.4) the scorer
\* adds the category boost exactly when the completeness ratio is >= 0.5,
\* and otherwise subtracts floor((1 - ratio)*5); below 0.5 the subtracted
\* penalty is between 2 and 5, so the adjustment is never positive, and the
\* category boost has no effect.  The result is then clamped to 0..100.
C25_BoostOrPenalty ==
  scOut # <<>> =>
    LET p == scOut[1]
        percent == (200 * p.ratio.num + p.ratio.den) \div (2 * p.ratio.den)
        computed == (6 * p.base + 4 * percent + 5) \div 10
        penalty == (5 * (p.ratio.den - p.ratio.num)) \div p.ratio.den
    IN IF 2 * p.ratio.num >= p.ratio.den
       THEN p.score = Max2(0, Min2(100, computed + p.boost))
       ELSE /\ penalty \in 2..5
            /\ p.score = Max2(0, Min2(100, computed - penalty))

\* a ratio of exactly 0.5 (one answer, two declared questions) with a
\* Skincare product: base 50 gives round(30 + 20) + 5 = 55
C25_Witness ==
  /\ scOut # <<>>
  /\ scOut[1].ratio = [num |-> 1, den |-> 2]
  /\ scOut[1].base = 50
  /\ scOut[1].boost = 5
  /\ scOut[1].score = 55

\* a ratio below 0.5 with a Skincare product: base 50 and ratio 1/3 give
\* round(30 + 13.2) - 3 = 40
C25_WitnessPenalty ==
  /\ scOut # <<>>
  /\ scOut[1].ratio = [num |-> 1, den |-> 3]
  /\ scOut[1].base = 50
  /\ scOut[1].boost = 5
  /\ scOut[1].score = 40

-----------------------------------------------------------------------------
(* The scorer applied to two answer mappings, with the same AI result,
   product and base *)

\* answer values: a text, the empty string, null
PairAnswerVals == {"yes", "", "null"}

\* mappings whose keys all have the same value
PairAnswerMaps ==
  {AnswersObj([i \in 1..n |-> v]) : n \in 0..MaxAnswers, v \in PairAnswerVals}

\* every integer score, and a missing one
PairAIResults ==
  {AIResult(<<sv, Undefined>>, <<q, NotArray>>, FALSE, TRUE) :
     sv \in {JSVal("num", 10 * b) : b \in 0..100} \cup {Undefined},
     q \in {NotArray} \cup 0..MaxQuestions}

InitPair ==
  /\ ScorerIdleStore
  /\ scIn \in [aiResult : PairAIResults,
               category : {"Skincare", "Electronics", "Other"},
               answers : PairAnswerMaps,
               answers2 : {AnswersObj([i \in 1..n |-> "yes"]) : n \in 0..MaxAnswers}]
  /\ scOut = <<>>

\* both calls use the same base: the same draw when the baseline is drawn
ScorePair ==
  /\ scOut = <<>>
  /\ \E rnd \in (IF NeedsRandom(scIn.aiResult) THEN {0, 20, 39} ELSE {0}) :
       scOut' = <<deriveTransparencyScore(scIn.aiResult, scIn.category, scIn.answers, rnd),
                  deriveTransparencyScore(scIn.aiResult, scIn.category, scIn.answers2, rnd)>>
  /\ UNCHANGED <<products, nextProductId, reports, nextId, last, authorization, inflight, scIn>>

NextPair == ScorePair

SpecPair == InitPair /\ [][NextPair]_vars

\* C26: the scorer depends on the answers only through the number of answer
\* keys: two mappings with the same number of keys, whatever their values
\* (empty strings and nulls included), give the same score for the same AI
\* result, base and product.
C26_OnlyKeyCount ==
  (scOut # <<>> /\ Len(scIn.answers.vals) = Len(scIn.answers2.vals))
    => scOut[1] = scOut[2]

\* three keys with empty values and three keys with texts, five declared
\* questions: both are scored 0.6 complete
C26_Witness ==
  /\ scOut # <<>>
  /\ scIn.answers = AnswersObj(<<"", "", "">>)
  /\ scIn.answers2 = AnswersObj(<<"yes", "yes", "yes">>)
  /\ scIn.aiResult.questions = 5
  /\ scIn.aiResult.transparencyScore = JSVal("num", 500)
  /\ scIn.category = "Skincare"
  /\ scOut = <<59, 59>>


\* C30: answering more never lowers the score.  For a finite AI score, a
\* product category and an AI-declared question list that are the same in
\* both calls, the score for the mapping with more answer keys is at least
\* the score for the mapping with fewer, also across the completeness
\* threshold 0.5 where the penalty gives way to the category boost.
C30_MoreAnswersNeverLower ==
  (/\ scOut # <<>>
   /\ scIn.aiResult.transparencyScore.kind = "num"
   /\ DeclaredQuestions(scIn.aiResult) # NotArray
   /\ Len(scIn.answers.vals) <= Len(scIn.answers2.vals))
    => scOut[1] <= scOut[2]

\* two and three answers to five declared questions, score 50, Skincare:
\* 46 - 3 = 43 below the threshold and 54 + 5 = 59 above it
C30_Witness ==
  /\ scOut = <<43, 59>>
  /\ scIn.aiResult.transparencyScore = JSVal("num", 500)
  /\ scIn.aiResult.questions = 5
  /\ Len(scIn.answers.vals) = 2
  /\ Len(scIn.answers2.vals) = 3
  /\ scIn.category = "Skincare"

-----------------------------------------------------------------------------
(* PUT /api/products/:id *)

\* a body of PUT /api/products/:id: the top-level fields that were sent, and
\* the ingredients inside a top-level "$set" object.  Product.findByIdAndUpdate
\* receives req.body as its update document, so "$set" is an update operator
SetIngredients(n) == [category |-> <<>>, ingredients |-> <<>>, set |-> <<n>>]

ProductFields(category, ingredients) ==
  [category |-> category, ingredients |-> ingredients, set |-> <<>>]

\* the validators of the route: every field is optional; body('ingredients')
\* reads req.body.ingredients only
ValidProductUpdate(body) ==
  /\ body.category = <<>> \/ body.category[1] \in ProductCategories
  /\ body.ingredients = <<>> \/ body.ingredients[1] >= 1

\* the update document applied to the stored product: the fields that were
\* sent replace the stored ones (bodies that name ingredients both ways are
\* not drawn).  The schema has no validator on ingredients, and pre('save')
\* does not run on findByIdAndUpdate
ApplyProductUpdate(doc, body) ==
  [category |-> IF body.category = <<>> THEN doc.category ELSE body.category[1],
   ingredients |-> IF body.ingredients # <<>> THEN body.ingredients[1]
                   ELSE IF body.set # <<>> THEN body.set[1]
                   ELSE doc.ingredients]

UpdateProductResult(prods, user, pid, body) ==
  LET resp(st) == [op |-> "updateProduct", caller |-> user, body |-> body,
                   id |-> pid, status |-> st]
  IN IF ~ValidProductUpdate(body) THEN [store |-> prods, resp |-> resp(400)]
     ELSE IF pid = MalformedId THEN [store |-> prods, resp |-> resp(500)]
     ELSE IF pid \notin DOMAIN prods THEN [store |-> prods, resp |-> resp(404)]
     ELSE [store |-> StorePut(prods, pid, ApplyProductUpdate(prods[pid], body)),
           resp |-> resp(200)]

UpdateProduct(inp) ==
  /\ \E header \in Headers(inp, inp.callers), pid \in inp.productIds,
        body \in inp.productUpdates :
       LET auth == protect(header)
           r == IF auth.ok
                THEN UpdateProductResult(products, auth.user, pid, body)
                ELSE [store |-> products, resp |-> Unauthorized("updateProduct")]
       IN /\ products' = r.store
          /\ last' = r.resp
          /\ authorization' = header
  /\ UNCHANGED <<nextProductId, reports, nextId, inflight, scIn, scOut>>

\* the product catalogue alone: creations, updates and deletions
ProductInputs ==
  [callers |-> {"u1"},
   productBodies |-> {ProductBody("Skincare", 1), ProductBody("Clothing", 2),
                      ProductBody("Other", 0), ProductBody("Toys", 1)},
   productIds |-> {MalformedId} \cup 1..MaxProducts,
   productUpdates |-> {ProductFields(<<>>, <<>>), ProductFields(<<"Other">>, <<>>),
                       ProductFields(<<"Toys">>, <<2>>), ProductFields(<<>>, <<0>>),
                       ProductFields(<<>>, <<2>>), SetIngredients(0), SetIngredients(1)},
   badHeaders |-> {NoHeader}]

NextProducts ==
  \/ CreateProduct(ProductInputs)
  \/ UpdateProduct(ProductInputs)
  \/ DeleteProduct(ProductInputs)

SpecProducts == Init /\ [][NextProducts]_vars

\* the request just answered carried an empty ingredient list
CarriesEmptyIngredients(resp) ==
  \/ /\ resp.op = "createProduct"
     /\ resp.status # 401
     /\ resp.body.ingredients = 0
  \/ /\ resp.op = "updateProduct"
     /\ resp.status # 401
     /\ (resp.body.ingredients = <<0>> \/ resp.body.set = <<0>>)

\* C27: after every product request every stored product has at least one
\* ingredient, and a create or update request that carries an empty ingredient
\* list is answered with an error and leaves the product store as it was
C27_IngredientsNonEmpty ==
  [][/\ \A pid \in DOMAIN products' : products'[pid].ingredients >= 1
     /\ CarriesEmptyIngredients(last') =>
          (last'.status >= 400 /\ products' = products)]_vars

-----------------------------------------------------------------------------
\* C28: POST /api/reports is all-or-nothing: a request answered with anything
\* but 201 leaves the report store as it was, and a report is added only by a
\* request answered 201
C28_PostAllOrNothing ==
  [][/\ (last'.op = "post" /\ last'.status # 201) => reports' = reports
     /\ (DOMAIN reports' # DOMAIN reports /\ DOMAIN reports \subseteq DOMAIN reports')
          => (last'.op = "post" /\ last'.status = 201)]_vars

-----------------------------------------------------------------------------
(* A DELETE that completes while a PUT of the same report is between its
   read and its save *)

\* the owner updates, deletes and reads the same reports at the same time
RaceInputs ==
  [callers |-> {"u1"},
   posters |-> {"u1"},
   productIds |-> {1},
   postAnswers |-> {AnswersObj(<<"yes">>)},
   aiOutcomes |-> {GoodAI},
   draws |-> {0},
   faults |-> {"none"},
   putBodies |-> {StatusBody("draft")},
   listQueries |-> {NoQuery},
   badHeaders |-> {NoHeader}]

NextRace ==
  \/ PostReport(RaceInputs)
  \/ \E s \in Slots : PutBegin(RaceInputs, s)
  \/ \E s \in Slots : PutSave(s)
  \/ DeleteReport(RaceInputs)
  \/ GetReport(RaceInputs)

SpecRace == InitSeeded /\ [][NextRace]_vars

\* the PUT in slot s has read its report and not yet saved it, and the report
\* has been deleted in between (ids are never used twice)
DeletedSinceRead(s) ==
  /\ inflight[s].phase = "loaded"
  /\ inflight[s].id \notin DOMAIN reports

====
